---- MODULE Spec2Model ----
(***************************************************************************)
(* A state-machine model of src/route_guide_server.js: the four RouteGuide *)
(* handlers (getFeature, listFeatures, recordRoute, routeChat) and the     *)
(* module-level state they share (feature_list, route_notes).              *)
(*                                                                         *)
(* Each handler, or each event listener a handler registers, is one        *)
(* action.  Requests arrive as wire messages whose fields may be absent;   *)
(* the proto loader (options at lines 8-15, defaults: true) fills absent   *)
(* scalar fields with 0 and absent message fields with null before the     *)
(* handler sees them.                                                      *)
(***************************************************************************)
EXTENDS Integers, Sequences, FiniteSets, TLC

VARIABLES
    feature_list,   \* line 20: the dataset, a sequence of features
    route_notes,    \* line 117: object mapping a location key to its notes
    crashed,        \* TRUE once an uncaught exception has ended the process
    now,            \* the monotonic clock read by process.hrtime, in ticks
    gfCall,         \* the getFeature call being looked at: request, callback log
    lfCall,         \* the listFeatures call being looked at: request, stream log
    rrCall,         \* recordRoute calls: the closure variables of each call
    rcCall,         \* routeChat calls: the duplex stream of each call
    arrivals,       \* history: every run of routeChat's 'data' listener, in order
    main            \* lines 178-191: how far startup has got, and the db file

vars == <<feature_list, route_notes, crashed, now, gfCall, lfCall, rrCall, rcCall, arrivals, main>>

---------------------------------------------------------------------------
(* Bounds of the model *)

\* longest dataset
MaxFeatures == 2
\* longest recordRoute input stream
MaxPoints == 2
\* most notes all routeChat calls receive together
MaxNotes == 3
\* the clock stops advancing here
MaxTime == 3
\* clock ticks per second (process.hrtime has sub-second resolution)
TicksPerSec == 2

Names == {"", "A"}
Coords == -1 .. 1
RouteCoords == 0 .. 1
RouteCallIds == {"r1"}
ChatCallIds == {"c1", "c2"}
Messages == {"m1", "m2"}

---------------------------------------------------------------------------
(* Values *)

\* JavaScript null
Null == [null |-> TRUE]

Points == [latitude : Coords, longitude : Coords]
Features == [name : Names, location : Points]

\* A Point message on the wire: either field may be absent.
WirePoints ==
    Points \cup [latitude : Coords] \cup [longitude : Coords] \cup {<<>>}

\* A Rectangle message on the wire: either corner may be absent.
WireRects == [lo : Points, hi : Points] \cup [lo : Points] \cup [hi : Points] \cup {<<>>}

WellFormedPoint(w) == DOMAIN w = {"latitude", "longitude"}

\* Sequences over S of length at most n
SeqUpTo(S, n) == UNION {[1 .. k -> S] : k \in 0 .. n}

\* Every dataset JSON.parse may hand to feature_list (line 187)
Datasets == SeqUpTo(Features, MaxFeatures)

\* protoLoader.loadSync(..., {defaults: true}): an absent int32 field reads 0
decodePoint(w) ==
    [latitude  |-> IF "latitude" \in DOMAIN w THEN w.latitude ELSE 0,
     longitude |-> IF "longitude" \in DOMAIN w THEN w.longitude ELSE 0]

\* ... and an absent message field reads null
decodeRect(w) ==
    [lo |-> IF "lo" \in DOMAIN w THEN decodePoint(w.lo) ELSE Null,
     hi |-> IF "hi" \in DOMAIN w THEN decodePoint(w.hi) ELSE Null]

\* What the runtime does with an exception that escapes a handler or a
\* listener.  The file installs no try/catch and no uncaughtException
\* handler, so it is the transport's and Node's choice: the process exits,
\* the transport fails that one call, or the exception is dropped and the
\* stream carries on.
ThrowOutcomes == {"exit", "abort", "ignore"}

\* one invocation of a response callback
Callback(err, value) == [err |-> err, value |-> value]

\* events on a writable response stream
Write(value) == [op |-> "write", value |-> value]
End == [op |-> "end", value |-> Null]

---------------------------------------------------------------------------
(* Startup, lines 178-191 *)

\* What --db_path leads to: no path was given, the file cannot be read, its
\* text is not JSON, or it parses to a dataset.
DbFile(kind, data) == [kind |-> kind, data |-> data]

\* the state of main once routeServer.start() has returned
Started(file) == [pc |-> "serving", bound |-> TRUE, started |-> TRUE, file |-> file]

\* The handlers are registered on routeServer by getServer (lines 169-176);
\* the server dispatches calls to them from routeServer.start() on (line
\* 188), for as long as the process lives.
Serving == ~crashed /\ main.started

\* a faulty variant: the server is started as soon as it is bound, before
\* the file has been read
bindAsyncCallback_startsFirst(bound) ==
    /\ ~crashed
    /\ main.pc = "binding"
    /\ IF main.file.kind = "nopath"
       THEN crashed' = TRUE /\ main' = [main EXCEPT !.pc = "failed", !.bound = bound]
       ELSE /\ main' = [main EXCEPT !.pc = "reading", !.bound = bound, !.started = bound]
            /\ UNCHANGED crashed
    /\ UNCHANGED <<feature_list, route_notes, now, gfCall, lfCall, rrCall, rcCall, arrivals>>

\* The callback of bindAsync, lines 181-190, up to the call of fs.readFile.
\* Its error argument is not looked at, so it runs the same whether or not
\* the port was bound.  path.resolve(undefined) on line 185 throws a
\* TypeError when no --db_path was given; nothing catches it.
bindAsyncCallback(bound) ==
    /\ ~crashed
    /\ main.pc = "binding"
    /\ IF main.file.kind = "nopath"
       THEN crashed' = TRUE /\ main' = [main EXCEPT !.pc = "failed", !.bound = bound]
       ELSE /\ main' = [main EXCEPT !.pc = "reading", !.bound = bound]
            /\ UNCHANGED crashed
    /\ UNCHANGED <<feature_list, route_notes, now, gfCall, lfCall, rrCall, rcCall, arrivals>>

\* The callback of fs.readFile, lines 185-189.  `throw err` (line 186), a
\* SyntaxError of JSON.parse (line 187) and the error start() raises on a
\* server that is not bound (line 188) all escape the callback: the process
\* exits.
readFileCallback ==
    /\ ~crashed
    /\ main.pc = "reading"
    /\ IF main.file.kind = "unreadable"
       THEN /\ crashed' = TRUE
            /\ main' = [main EXCEPT !.pc = "failed"]
            /\ UNCHANGED feature_list
       ELSE IF main.file.kind = "unparsable"
       THEN /\ crashed' = TRUE
            /\ main' = [main EXCEPT !.pc = "failed"]
            /\ UNCHANGED feature_list
       ELSE /\ feature_list' = main.file.data
            /\ IF main.bound
               THEN main' = [main EXCEPT !.pc = "serving", !.started = TRUE]
                    /\ UNCHANGED crashed
               ELSE main' = [main EXCEPT !.pc = "failed"] /\ crashed' = TRUE
    /\ UNCHANGED <<route_notes, now, gfCall, lfCall, rrCall, rcCall, arrivals>>

---------------------------------------------------------------------------
(* checkFeature, lines 22-37 *)

\* a faulty variant: keeps scanning and returns the last match
RECURSIVE checkFeature_lastFrom(_, _, _)
checkFeature_lastFrom(i, point, found) ==
    IF i > Len(feature_list) THEN found
    ELSE IF feature_list[i].location.latitude = point.latitude
            /\ feature_list[i].location.longitude = point.longitude
         THEN checkFeature_lastFrom(i + 1, point, feature_list[i])
         ELSE checkFeature_lastFrom(i + 1, point, found)

checkFeature_last(point) ==
    checkFeature_lastFrom(1, point, [name |-> "", location |-> point])

\* the for loop of lines 25-30, from index i on, then lines 31-36
RECURSIVE checkFeatureFrom(_, _)
checkFeatureFrom(i, point) ==
    IF i > Len(feature_list) THEN [name |-> "", location |-> point]
    ELSE IF feature_list[i].location.latitude = point.latitude
            /\ feature_list[i].location.longitude = point.longitude
         THEN feature_list[i]
         ELSE checkFeatureFrom(i + 1, point)

checkFeature(point) ==
    checkFeatureFrom(1, point)

---------------------------------------------------------------------------
(* getFeature, lines 45-47 *)

NoUnaryCall == [request |-> Null, status |-> "idle", responses |-> <<>>]

\* a faulty variant: a feature made up for an unknown point is kept in the
\* list of features
getFeature_caching(w) ==
    /\ Serving
    /\ gfCall.status = "idle"
    /\ gfCall' = [request   |-> decodePoint(w),
                  status    |-> "done",
                  responses |-> <<Callback("null", checkFeature(decodePoint(w)))>>]
    /\ feature_list' =
          IF \E i \in 1 .. Len(feature_list) : feature_list[i] = checkFeature(decodePoint(w))
          THEN feature_list
          ELSE Append(feature_list, checkFeature(decodePoint(w)))
    /\ UNCHANGED <<route_notes, crashed, now, lfCall, rrCall, rcCall, arrivals, main>>

getFeature(w) ==
    /\ Serving
    /\ gfCall.status = "idle"
    /\ gfCall' = [request   |-> decodePoint(w),
                  status    |-> "done",
                  responses |-> <<Callback("null", checkFeature(decodePoint(w)))>>]
    /\ UNCHANGED <<feature_list, route_notes, crashed, now, lfCall, rrCall, rcCall, arrivals, main>>

---------------------------------------------------------------------------
(* listFeatures, lines 57-77 *)

Min2(a, b) == IF a <= b THEN a ELSE b
Max2(a, b) == IF a >= b THEN a ELSE b

\* a faulty variant: the corner named lo is taken as the left one
left_ofLo(lo, hi) == lo.longitude

left(lo, hi) ==
    Min2(lo.longitude, hi.longitude)
right(lo, hi) ==
    Max2(lo.longitude, hi.longitude)
top(lo, hi) ==
    Max2(lo.latitude, hi.latitude)
bottom(lo, hi) ==
    Min2(lo.latitude, hi.latitude)

\* a faulty variant: the right edge is exclusive
inBox_openRight(feature, l, r, t, b) ==
    /\ feature.location.longitude >= l
    /\ feature.location.longitude < r
    /\ feature.location.latitude >= b
    /\ feature.location.latitude <= t

\* the condition of lines 69-72
inBox(feature, l, r, t, b) ==
    /\ feature.location.longitude >= l
    /\ feature.location.longitude <= r
    /\ feature.location.latitude >= b
    /\ feature.location.latitude <= t

\* the _.each of lines 65-75 from index i on: the writes it makes, in order
RECURSIVE eachFeatureFrom(_, _, _, _, _)
eachFeatureFrom(i, l, r, t, b) ==
    IF i > Len(feature_list) THEN <<>>
    ELSE LET feature == feature_list[i] IN
         (IF feature.name = "" THEN <<>>
          ELSE IF inBox(feature, l, r, t, b) THEN <<Write(feature)>>
          ELSE <<>>)
         \o eachFeatureFrom(i + 1, l, r, t, b)

\* everything listFeatures puts on the stream for a request with both corners
listFeaturesStream(request) ==
    LET lo == request.lo
        hi == request.hi
    IN eachFeatureFrom(1, left(lo, hi), right(lo, hi), top(lo, hi), bottom(lo, hi))
       \o <<End>>

NoStreamCall == [request |-> Null, status |-> "idle", out |-> <<>>]

\* lo.longitude or hi.longitude on line 60 throws a TypeError when the
\* corner is null; nothing has been written by then.
listFeatures(w) ==
    /\ Serving
    /\ lfCall.status = "idle"
    /\ LET request == decodeRect(w) IN
       IF request.lo = Null \/ request.hi = Null
       THEN \E outcome \in ThrowOutcomes :
               /\ crashed' = (outcome = "exit")
               /\ lfCall' = [request |-> request,
                             status  |-> IF outcome = "abort" THEN "error" ELSE "open",
                             out     |-> <<>>]
       ELSE /\ lfCall' = [request |-> request,
                          status  |-> "ended",
                          out     |-> listFeaturesStream(request)]
            /\ UNCHANGED crashed
    /\ UNCHANGED <<feature_list, route_notes, now, gfCall, rrCall, rcCall, arrivals, main>>

---------------------------------------------------------------------------
(* getDistance, lines 125-142 *)

\* an exception in flight, as the value of the expression that raised it
Throw(name) == [throw |-> name]
IsThrow(v) == "throw" \in DOMAIN v

\* Line 130 reads COORD_FACTOR.  No declaration, parameter or import of the
\* file binds that name and nothing assigns it on the global object, so the
\* read raises a ReferenceError before any arithmetic is done; lines 131-141
\* are never reached, whatever the two points are.
getDistance(start, end) ==
    Throw("ReferenceError")

---------------------------------------------------------------------------
(* recordRoute, lines 86-115 *)

\* x|0 is ToInt32(x): the fraction is dropped and the result wrapped into the
\* signed 32-bit range.  The running total of this model is a whole number
\* (getDistance never returns, so nothing is ever added to the initial 0) and
\* every integer TLC represents lies in that range, where ToInt32 changes
\* nothing.
toInt32(x) == x

\* process.hrtime(start_time)[0]: the whole seconds elapsed since start_time
hrtimeSeconds(start_time) == (now - start_time) \div TicksPerSec

NoRouteCall ==
    [status |-> "idle", point_count |-> 0, feature_count |-> 0, distance |-> 0,
     previous |-> Null, start_time |-> 0, received |-> <<>>, thrown |-> 0,
     responses |-> <<>>,
     \* history: the clock when the handler was called, when the first point
     \* arrived and when the input ended (-1: not yet)
     called_at |-> 0, first_at |-> -1, ended_at |-> -1]

\* a faulty variant: the counters are shared by all calls (declared at
\* module level), so starting a call resets them for the calls in flight
recordRoute_sharedState(c) ==
    /\ Serving
    /\ rrCall[c].status = "idle"
    /\ rrCall' = [d \in DOMAIN rrCall |->
                    IF d = c
                    THEN [NoRouteCall EXCEPT !.status = "open", !.start_time = now,
                                             !.called_at = now]
                    ELSE [rrCall[d] EXCEPT !.point_count = 0, !.feature_count = 0,
                                           !.distance = 0, !.previous = Null]]
    /\ UNCHANGED <<feature_list, route_notes, crashed, now, gfCall, lfCall, rcCall, arrivals, main>>

\* lines 87-92 and the registration of the two listeners
recordRoute(c) ==
    /\ Serving
    /\ rrCall[c].status = "idle"
    /\ rrCall' = [rrCall EXCEPT ![c] =
                    [NoRouteCall EXCEPT !.status = "open", !.start_time = now,
                                        !.called_at = now]]
    /\ UNCHANGED <<feature_list, route_notes, crashed, now, gfCall, lfCall, rcCall, arrivals, main>>

\* a faulty variant: a point is counted as a feature visit whatever it matches
countFeature_always(feature_count, point) == feature_count + 1

\* lines 95-97
countFeature(feature_count, point) ==
    IF checkFeature(point).name # "" THEN feature_count + 1 ELSE feature_count

\* line 94
countPoint(point_count) ==
    point_count + 1

\* the 'data' listener, lines 93-104, on the wire point w
recordRouteData(c, w) ==
    /\ Serving
    /\ rrCall[c].status = "open"
    /\ Len(rrCall[c].received) < MaxPoints
    /\ LET call == rrCall[c]
           point == decodePoint(w)
           counted == [call EXCEPT
                         !.received = Append(@, w),
                         !.first_at = IF call.received = <<>> THEN now ELSE @,
                         !.point_count = countPoint(@),
                         !.feature_count = countFeature(@, point)]
       IN IF call.previous = Null
          THEN /\ rrCall' = [rrCall EXCEPT ![c] = [counted EXCEPT !.previous = point]]
               /\ UNCHANGED crashed
          ELSE LET d == getDistance(call.previous, point) IN
               IF IsThrow(d)
               THEN \* the listener is left at line 101: previous keeps its value
                    \E outcome \in ThrowOutcomes :
                       /\ crashed' = (outcome = "exit")
                       /\ rrCall' = [rrCall EXCEPT ![c] =
                            [counted EXCEPT
                               !.thrown = @ + 1,
                               !.status = IF outcome = "abort" THEN "error" ELSE @]]
               ELSE /\ rrCall' = [rrCall EXCEPT ![c] =
                            [counted EXCEPT !.distance = @ + d, !.previous = point]]
                    /\ UNCHANGED crashed
    /\ UNCHANGED <<feature_list, route_notes, now, gfCall, lfCall, rcCall, arrivals, main>>

\* a faulty variant: the two clock readings are subtracted the wrong way round
summary_swappedClock(call) ==
    [point_count   |-> call.point_count,
     feature_count |-> call.feature_count,
     distance      |-> toInt32(call.distance),
     elapsed_time  |-> (call.start_time - now) \div TicksPerSec]

\* a faulty variant: the timer runs from the first point, when there is one
summary_sinceFirstPoint(call) ==
    [point_count   |-> call.point_count,
     feature_count |-> call.feature_count,
     distance      |-> toInt32(call.distance),
     elapsed_time  |-> hrtimeSeconds(IF call.first_at >= 0 THEN call.first_at
                                     ELSE call.start_time)]

\* the object literal of lines 106-113
summary(call) ==
    [point_count   |-> call.point_count,
     feature_count |-> call.feature_count,
     distance      |-> toInt32(call.distance),
     elapsed_time  |-> hrtimeSeconds(call.start_time)]

\* the 'end' listener, lines 105-114
recordRouteEnd(c) ==
    /\ Serving
    /\ rrCall[c].status = "open"
    /\ rrCall' = [rrCall EXCEPT ![c] =
                    [@ EXCEPT !.status = "done",
                              !.ended_at = now,
                              !.responses = Append(@, Callback("null", summary(rrCall[c])))]]
    /\ UNCHANGED <<feature_list, route_notes, crashed, now, gfCall, lfCall, rcCall, arrivals, main>>

\* the clock advances
Tick ==
    /\ ~crashed
    /\ now < MaxTime
    /\ now' = now + 1
    /\ UNCHANGED <<feature_list, route_notes, crashed, gfCall, lfCall, rrCall, rcCall, arrivals, main>>

---------------------------------------------------------------------------
(* routeChat, lines 148-166 *)

\* A RouteNote message on the wire; defaults: true reads an absent location
\* as null and an absent message as the empty string.
decodeNote(w) ==
    [location |-> IF "location" \in DOMAIN w THEN decodePoint(w.location) ELSE Null,
     message  |-> IF "message" \in DOMAIN w THEN w.message ELSE ""]

\* Line 150 calls pointKey.  No declaration, parameter or import of the file
\* binds that name and nothing assigns it on the global object, so resolving
\* the callee raises a ReferenceError before the argument is looked at.
pointKey(point) ==
    Throw("ReferenceError")

\* JSON.parse(JSON.stringify(note)), line 161: a structurally equal copy
jsonCopy(note) == note

\* route_notes.hasOwnProperty(key), line 153
hasOwnProperty(key) == key \in DOMAIN route_notes

\* the notes the registry holds for a location, under whatever key
StoredAt(location) ==
    LET keys == {k \in DOMAIN route_notes :
                    \E i \in 1 .. Len(route_notes[k]) :
                        route_notes[k][i].location = location}
    IN IF keys = {} THEN <<>> ELSE route_notes[CHOOSE k \in keys : TRUE]

NoChatCall == [status |-> "idle", received |-> <<>>, out |-> <<>>, thrown |-> 0]

\* registration of the two listeners
routeChat(c) ==
    /\ Serving
    /\ rcCall[c].status = "idle"
    /\ rcCall' = [rcCall EXCEPT ![c] = [NoChatCall EXCEPT !.status = "open"]]
    /\ UNCHANGED <<feature_list, route_notes, crashed, now, gfCall, lfCall, rrCall, arrivals, main>>

\* the 'data' listener, lines 149-162, on the wire note w
routeChatData(c, w) ==
    /\ Serving
    /\ rcCall[c].status = "open"
    /\ Len(arrivals) < MaxNotes
    /\ LET note == decodeNote(w)
           key == pointKey(note.location)
           before == StoredAt(note.location)
       IN IF IsThrow(key)
          THEN \* the listener is left at line 150: nothing written, nothing stored
               \E outcome \in ThrowOutcomes :
                  /\ crashed' = (outcome = "exit")
                  /\ rcCall' = [rcCall EXCEPT ![c] =
                       [@ EXCEPT !.received = Append(@, w),
                                 !.thrown = @ + 1,
                                 !.status = IF outcome = "abort" THEN "error" ELSE @]]
                  /\ arrivals' = Append(arrivals,
                       [call |-> c, note |-> note, before |-> before,
                        replies |-> <<>>, appended |-> FALSE])
                  /\ UNCHANGED route_notes
          ELSE LET replies == IF hasOwnProperty(key) THEN route_notes[key] ELSE <<>>
               IN /\ rcCall' = [rcCall EXCEPT ![c] =
                       [@ EXCEPT !.received = Append(@, w),
                                 !.out = @ \o [i \in 1 .. Len(replies) |-> Write(replies[i])]]]
                  /\ route_notes' =
                       [k \in DOMAIN route_notes \cup {key} |->
                          IF k = key THEN Append(replies, jsonCopy(note))
                          ELSE route_notes[k]]
                  /\ arrivals' = Append(arrivals,
                       [call |-> c, note |-> note, before |-> before,
                        replies |-> replies, appended |-> TRUE])
                  /\ UNCHANGED crashed
    /\ UNCHANGED <<feature_list, now, gfCall, lfCall, rrCall, main>>

\* a faulty variant: the output stream is ended twice
routeChatEnd_twice(c) ==
    /\ Serving
    /\ rcCall[c].status = "open"
    /\ rcCall' = [rcCall EXCEPT ![c] =
                    [@ EXCEPT !.status = "ended", !.out = @ \o <<End, End>>]]
    /\ UNCHANGED <<feature_list, route_notes, crashed, now, gfCall, lfCall, rrCall, arrivals, main>>

\* the 'end' listener, lines 163-165
routeChatEnd(c) ==
    /\ Serving
    /\ rcCall[c].status = "open"
    /\ rcCall' = [rcCall EXCEPT ![c] =
                    [@ EXCEPT !.status = "ended", !.out = Append(@, End)]]
    /\ UNCHANGED <<feature_list, route_notes, crashed, now, gfCall, lfCall, rrCall, arrivals, main>>

---------------------------------------------------------------------------
(* State after startup: the dataset is loaded (line 187), nothing called *)

NoCalls ==
    /\ route_notes = <<>>
    /\ crashed = FALSE
    /\ now = 0
    /\ gfCall = NoUnaryCall
    /\ lfCall = NoStreamCall
    /\ arrivals = <<>>
    /\ main = Started(DbFile("ok", feature_list))

InitFeatures ==
    /\ feature_list \in Datasets
    /\ NoCalls
    /\ rrCall = <<>>
    /\ rcCall = <<>>

\* A finished unary or server-streaming call leaves nothing behind in the
\* process: its call object is dropped and the next call starts afresh.
releaseGetFeature ==
    /\ gfCall.status = "done"
    /\ gfCall' = NoUnaryCall
    /\ UNCHANGED <<feature_list, route_notes, crashed, now, lfCall, rrCall, rcCall, arrivals, main>>

releaseListFeatures ==
    /\ ~crashed
    /\ lfCall.status \in {"ended", "error"}
    /\ lfCall' = NoStreamCall
    /\ UNCHANGED <<feature_list, route_notes, crashed, now, gfCall, rrCall, rcCall, arrivals, main>>

\* the points and datasets the recordRoute runs draw from
RoutePoints == [latitude : RouteCoords, longitude : RouteCoords]
RouteWirePoints == RoutePoints \cup {[latitude |-> 1], <<>>}
RouteFeatures ==
    {[name |-> "A", location |-> [latitude |-> 0, longitude |-> 0]],
     [name |-> "", location |-> [latitude |-> 0, longitude |-> 0]],
     [name |-> "A", location |-> [latitude |-> 1, longitude |-> 1]]}

InitRoute ==
    /\ feature_list \in SeqUpTo(RouteFeatures, MaxFeatures)
    /\ NoCalls
    /\ rrCall = [c \in RouteCallIds |-> NoRouteCall]
    /\ rcCall = <<>>

NextRoute ==
    \/ \E c \in DOMAIN rrCall : recordRoute(c)
    \/ \E c \in DOMAIN rrCall, w \in RouteWirePoints : recordRouteData(c, w)
    \/ \E c \in DOMAIN rrCall : recordRouteEnd(c)
    \/ Tick

SpecRoute == InitRoute /\ [][NextRoute]_vars

\* two recordRoute calls in flight at once, their events interleaved
Route2WirePoints ==
    {[latitude |-> 0, longitude |-> 0], [latitude |-> 1, longitude |-> 1]}

InitRoute2 ==
    /\ feature_list \in {<<f>> : f \in RouteFeatures}
    /\ NoCalls
    /\ rrCall = [c \in {"r1", "r2"} |-> NoRouteCall]
    /\ rcCall = <<>>

NextRoute2 ==
    \/ \E c \in DOMAIN rrCall : recordRoute(c)
    \/ \E c \in DOMAIN rrCall, w \in Route2WirePoints : recordRouteData(c, w)
    \/ \E c \in DOMAIN rrCall : recordRouteEnd(c)

SpecRoute2 == InitRoute2 /\ [][NextRoute2]_vars

\* the notes the routeChat runs draw from
ChatPoints == {[latitude |-> 0, longitude |-> 0], [latitude |-> 0, longitude |-> 1]}
ChatWireNotes == [location : ChatPoints, message : Messages] \cup {[message |-> "m1"]}

InitChat ==
    /\ feature_list \in {<<f>> : f \in RouteFeatures}
    /\ NoCalls
    /\ rrCall = <<>>
    /\ rcCall = [c \in ChatCallIds |-> NoChatCall]

NextChat ==
    \/ \E c \in DOMAIN rcCall : routeChat(c)
    \/ \E c \in DOMAIN rcCall, w \in ChatWireNotes : routeChatData(c, w)
    \/ \E c \in DOMAIN rcCall : routeChatEnd(c)

SpecChat == InitChat /\ [][NextChat]_vars

---------------------------------------------------------------------------
(* The whole server: startup, then all four handlers side by side.  The   *)
(* clock, which only recordRoute reads, is exercised under SpecRoute.      *)

SysPoint == [latitude |-> 0, longitude |-> 0]
SysWirePoints == {SysPoint, [latitude |-> 1, longitude |-> 1], [latitude |-> 1]}
SysWireRects == {[lo |-> SysPoint, hi |-> [latitude |-> 1, longitude |-> 1]],
                 [hi |-> SysPoint]}
SysWireNotes == {[location |-> SysPoint, message |-> "m1"], [message |-> "m1"]}

\* what the db file may hold
StartupFiles ==
    {DbFile("nopath", <<>>), DbFile("unreadable", <<>>), DbFile("unparsable", <<>>)}
    \cup {DbFile("ok", <<f>>) : f \in RouteFeatures}

\* the module has been evaluated (lines 1-177) and main has called bindAsync
Init ==
    /\ feature_list = <<>>
    /\ route_notes = <<>>
    /\ crashed = FALSE
    /\ now = 0
    /\ gfCall = NoUnaryCall
    /\ lfCall = NoStreamCall
    /\ arrivals = <<>>
    /\ rrCall = [c \in {"r1"} |-> NoRouteCall]
    /\ rcCall = [c \in {"c1"} |-> NoChatCall]
    /\ \E file \in StartupFiles :
          main = [pc |-> "binding", bound |-> FALSE, started |-> FALSE, file |-> file]

Next ==
    \/ \E bound \in BOOLEAN : bindAsyncCallback(bound)
    \/ readFileCallback
    \/ \E w \in SysWirePoints : getFeature(w)
    \/ releaseGetFeature
    \/ \E w \in SysWireRects : listFeatures(w)
    \/ releaseListFeatures
    \/ \E c \in DOMAIN rrCall : recordRoute(c)
    \/ \E c \in DOMAIN rrCall, w \in SysWirePoints : recordRouteData(c, w)
    \/ \E c \in DOMAIN rrCall : recordRouteEnd(c)
    \/ \E c \in DOMAIN rcCall : routeChat(c)
    \/ \E c \in DOMAIN rcCall, w \in SysWireNotes : routeChatData(c, w)
    \/ \E c \in DOMAIN rcCall : routeChatEnd(c)

Spec == Init /\ [][Next]_vars

NextGetFeature ==
    \/ \E w \in WirePoints : getFeature(w)
    \/ releaseGetFeature

NextListFeatures ==
    \/ \E w \in WireRects : listFeatures(w)
    \/ releaseListFeatures

SpecGetFeature == InitFeatures /\ [][NextGetFeature]_vars
SpecListFeatures == InitFeatures /\ [][NextListFeatures]_vars

---------------------------------------------------------------------------
(* Claims about getFeature and listFeatures *)

\* indices of the features located exactly at p
MatchesAt(p) ==
    {i \in 1 .. Len(feature_list) :
        /\ feature_list[i].location.latitude = p.latitude
        /\ feature_list[i].location.longitude = p.longitude}

FirstIndex(S) == CHOOSE i \in S : \A j \in S : i <= j

\* C1: getFeature on a well-formed point invokes the callback once, without
\* error, with the first feature in dataset order located exactly at the
\* point, or with an empty-named feature at the point when none is there.
C1_GetFeatureFirstMatch ==
    gfCall.status = "done" =>
        LET p == gfCall.request IN
        gfCall.responses =
            <<Callback("null",
                       IF MatchesAt(p) = {}
                       THEN [name |-> "", location |-> p]
                       ELSE feature_list[FirstIndex(MatchesAt(p))])>>

\* two features with different names share the queried location
C1_Witness ==
    /\ gfCall.status = "done"
    /\ \E i, j \in MatchesAt(gfCall.request) :
          i < j /\ feature_list[i].name # feature_list[j].name

\* the features a rectangle request selects, in dataset order
InRegion(f, request) ==
    LET lons == {request.lo.longitude, request.hi.longitude}
        lats == {request.lo.latitude, request.hi.latitude}
    IN /\ f.name # ""
       /\ \E a, b \in lons : a <= f.location.longitude /\ f.location.longitude <= b
       /\ \E a, b \in lats : a <= f.location.latitude /\ f.location.latitude <= b

Selected(request) == SelectSeq(feature_list, LAMBDA f : InRegion(f, request))

\* C2: listFeatures writes exactly the named features inside the rectangle
\* (all four edges inclusive), once each and in dataset order, and then ends
\* the stream once, after the last write.
C2_ListFeaturesExact ==
    lfCall.status = "ended" =>
        LET sel == Selected(lfCall.request) IN
        lfCall.out = [i \in 1 .. Len(sel) |-> Write(sel[i])] \o <<End>>

\* two features are written, both lying on an edge of the rectangle, while
\* the rectangle is more than a single point
C2_Witness ==
    /\ lfCall.status = "ended"
    /\ Len(lfCall.out) = 3
    /\ lfCall.request.lo # lfCall.request.hi
    /\ lfCall.out[1].value.location = lfCall.request.hi
    /\ lfCall.out[2].value.location = lfCall.request.lo

SwapCorners(request) == [lo |-> request.hi, hi |-> request.lo]

\* C8: the stream listFeatures produced for (lo, hi) is the stream it
\* produces for (hi, lo).
C8_SwappedRectangleSameStream ==
    lfCall.status = "ended" =>
        lfCall.out = listFeaturesStream(SwapCorners(lfCall.request))

\* lo is the upper right corner and a feature strictly inside was written
C8_Witness ==
    /\ lfCall.status = "ended"
    /\ lfCall.request.lo.longitude > lfCall.request.hi.longitude
    /\ lfCall.request.lo.latitude > lfCall.request.hi.latitude
    /\ \E k \in 1 .. Len(lfCall.out) - 1 :
          /\ lfCall.out[k].value.location.longitude < lfCall.request.lo.longitude
          /\ lfCall.out[k].value.location.longitude > lfCall.request.hi.longitude


---------------------------------------------------------------------------
(* Claims about recordRoute *)

AllWellFormed(received) ==
    \A i \in 1 .. Len(received) : WellFormedPoint(received[i])

\* C5: on a well-formed input stream of any length every point is processed
\* and the end of the input delivers exactly one summary: no response comes
\* earlier and the call never ends with an error.
C5_RecordRouteAlwaysSummarises ==
    \A c \in DOMAIN rrCall :
        LET call == rrCall[c] IN
        AllWellFormed(call.received) =>
            /\ call.thrown = 0
            /\ call.status # "error"
            /\ call.status = "done" =>
                  Len(call.responses) = 1 /\ call.responses[1].err = "null"
            /\ call.status # "done" => call.responses = <<>>

\* a named feature is the first one in the dataset at the point p
NamedFeatureAt(p) ==
    /\ MatchesAt(p) # {}
    /\ feature_list[FirstIndex(MatchesAt(p))].name # ""

NamedVisits(received) ==
    Cardinality({i \in 1 .. Len(received) : NamedFeatureAt(decodePoint(received[i]))})

\* C6: throughout a recordRoute call point_count is the number of points
\* received and feature_count the number of them that match a named feature,
\* repeated visits included, so 0 <= feature_count <= point_count; a
\* summary that is returned carries these two counts.
C6_CountsMatchReceivedPoints ==
    \A c \in DOMAIN rrCall :
        LET call == rrCall[c] IN
        /\ call.point_count = Len(call.received)
        /\ call.feature_count = NamedVisits(call.received)
        /\ 0 <= call.feature_count /\ call.feature_count <= call.point_count
        /\ \A k \in 1 .. Len(call.responses) :
              /\ call.responses[k].value.point_count = Len(call.received)
              /\ call.responses[k].value.feature_count = NamedVisits(call.received)

\* a summary was returned for a one-point route whose point is the location
\* of two features, the first unnamed and the second named: it counts no
\* feature visit
C6_Witness ==
    \E c \in DOMAIN rrCall :
        /\ rrCall[c].status = "done"
        /\ Len(rrCall[c].received) = 1
        /\ rrCall[c].responses[1].value.feature_count = 0
        /\ MatchesAt(decodePoint(rrCall[c].received[1])) # {}
        /\ Len(feature_list) = 2
        /\ feature_list[2].name = "A"
        /\ feature_list[2].location = decodePoint(rrCall[c].received[1])

\* C9: over no points recordRoute returns point_count 0, feature_count 0,
\* distance 0 and elapsed_time >= 0, and over exactly one point it returns
\* point_count 1, feature_count 0 or 1, distance 0 and elapsed_time >= 0;
\* in both cases no listener throws.
C9_ShortRoutes ==
    \A c \in DOMAIN rrCall :
        LET call == rrCall[c]
            n == Len(call.received)
        IN n <= 1 =>
            /\ call.thrown = 0
            /\ call.status \in {"idle", "open", "done"}
            /\ call.status = "done" =>
                 /\ Len(call.responses) = 1
                 /\ call.responses[1].err = "null"
                 /\ LET v == call.responses[1].value IN
                    /\ v.point_count = n
                    /\ v.feature_count \in 0 .. n
                    /\ v.distance = 0
                    /\ v.elapsed_time >= 0

\* a one-point route over a named feature, ended a second or more after the
\* call began
C9_Witness ==
    \E c \in DOMAIN rrCall :
        /\ rrCall[c].status = "done"
        /\ Len(rrCall[c].received) = 1
        /\ rrCall[c].responses[1].value.feature_count = 1
        /\ rrCall[c].responses[1].value.elapsed_time >= 1

\* C10: a recordRoute call that received a point with latitude or longitude
\* missing never completes with a summary: it is rejected with an
\* invalid-argument error.
C10_MalformedPointRejected ==
    \A c \in DOMAIN rrCall :
        LET call == rrCall[c] IN
        ~AllWellFormed(call.received) =>
            /\ call.status # "done"
            /\ \A k \in 1 .. Len(call.responses) : call.responses[k].err = "INVALID_ARGUMENT"

---------------------------------------------------------------------------
(* Claims about routeChat *)

WellFormedNote(note) == note.location # Null

\* the notes of the first n runs of the data listener that carry a location
ArrivedAt(location, n) ==
    LET at == SelectSeq(SubSeq(arrivals, 1, n), LAMBDA a : a.note.location = location)
    IN [i \in 1 .. Len(at) |-> at[i].note]

\* C3: for every received note the replies written are exactly the notes
\* the registry held for its location before it arrived, in order, and the
\* note itself is appended to that sequence afterwards.
C3_RepliesAreHistoryThenAppend ==
    \A i \in 1 .. Len(arrivals) :
        WellFormedNote(arrivals[i].note) =>
            /\ arrivals[i].replies = arrivals[i].before
            /\ arrivals[i].appended

\* C4: of two notes sent to one location by different callers, the later
\* one sees the earlier one as history: never does neither caller see the
\* other's note, and never do both.
C4_OneOfTwoCallersSeesTheOther ==
    \A i, j \in 1 .. Len(arrivals) :
        (/\ i < j
         /\ arrivals[i].call # arrivals[j].call
         /\ WellFormedNote(arrivals[i].note)
         /\ arrivals[i].note.location = arrivals[j].note.location)
        => /\ arrivals[j].replies # <<>>
           /\ \E k \in 1 .. Len(arrivals[j].replies) :
                 arrivals[j].replies[k] = arrivals[i].note

\* C7: the registry's sequence for a location is exactly the notes received
\* for that location so far, in arrival order.
C7_RegistryHoldsArrivalsInOrder ==
    \A location \in ChatPoints :
        StoredAt(location) = ArrivedAt(location, Len(arrivals))


---------------------------------------------------------------------------
(* Claims about failures and about the state the handlers share *)

\* calls that have begun, have not finished and have raised nothing
HealthyInFlight ==
    {c \in DOMAIN rrCall : rrCall[c].status = "open" /\ rrCall[c].thrown = 0}
    \cup {c \in DOMAIN rcCall : rcCall[c].status = "open" /\ rcCall[c].thrown = 0}

\* C11: a call that fails ends only itself: the dataset and the registry
\* stay as they were (no empty entry is left under a key) and the other
\* calls in flight go on to complete.
C11_FailureEndsOnlyItsOwnCall ==
    main.started =>
        /\ feature_list = main.file.data
        /\ \A k \in DOMAIN route_notes : route_notes[k] # <<>>
        /\ crashed => HealthyInFlight = {}


---------------------------------------------------------------------------
(* Claims about distances *)

\* how many of a call's segments got their distance added to the total:
\* one per point after the first, less those on which the listener threw
SegmentsAdded(call) ==
    IF call.received = <<>> THEN 0 ELSE Len(call.received) - 1 - call.thrown

\* C12: the summary's distance is the running total of the distances of
\* all segments between consecutive points, truncated once at the end, and
\* is not negative, however long the route.
C12_DistanceIsTruncatedTotal ==
    \A c \in DOMAIN rrCall :
        LET call == rrCall[c] IN
        /\ call.received # <<>> => SegmentsAdded(call) = Len(call.received) - 1
        /\ \A k \in 1 .. Len(call.responses) :
              /\ call.responses[k].value.distance = call.distance
              /\ call.responses[k].value.distance >= 0

\* C13: getDistance returns a number that is not negative, the same for
\* (a, b) as for (b, a), and 0 for (a, a): here for the two points a call
\* handed to it.
C13_DistanceSymmetricZeroOnEqual ==
    \A c \in DOMAIN rrCall :
        Len(rrCall[c].received) >= 2 =>
            LET a == decodePoint(rrCall[c].received[1])
                b == decodePoint(rrCall[c].received[2])
            IN /\ ~IsThrow(getDistance(a, b))
               /\ ~IsThrow(getDistance(b, a))
               /\ getDistance(a, b) = getDistance(b, a)
               /\ getDistance(a, b) >= 0
               /\ getDistance(a, a) = 0


---------------------------------------------------------------------------
(* Claims about the routeChat stream *)

\* the replies owed to call c by the first n runs of the data listener
RECURSIVE RepliesOwed(_, _)
RepliesOwed(c, n) ==
    IF n = 0 THEN <<>>
    ELSE RepliesOwed(c, n - 1)
         \o (IF arrivals[n].call = c
             THEN [i \in 1 .. Len(arrivals[n].replies) |-> Write(arrivals[n].replies[i])]
             ELSE <<>>)

---------------------------------------------------------------------------
(* Claims about elapsed_time *)

WholeSeconds(from, to) == (to - from) \div TicksPerSec

\* C15 as stated: elapsed_time is the whole seconds from the first received
\* point to the end of the input when a point arrived, and from the start
\* of the call only when none did.
C15_ElapsedSinceFirstPoint ==
    \A c \in DOMAIN rrCall :
        LET call == rrCall[c] IN
        call.status = "done" =>
            call.responses[1].value.elapsed_time =
                WholeSeconds(IF call.received # <<>> THEN call.first_at ELSE call.called_at,
                             call.ended_at)

\* C15 as amended: elapsed_time is the whole seconds from the moment the
\* handler was called to the end of the input, whether or not points
\* arrived; the wait for the first point is counted.
C15_ElapsedSinceCallStart ==
    \A c \in DOMAIN rrCall :
        LET call == rrCall[c] IN
        call.status = "done" =>
            call.responses[1].value.elapsed_time =
                WholeSeconds(call.called_at, call.ended_at)

\* the first point came a second or more after the call began and the input
\* ended less than a second after that point
C15_Witness ==
    \E c \in DOMAIN rrCall :
        /\ rrCall[c].status = "done"
        /\ rrCall[c].received # <<>>
        /\ WholeSeconds(rrCall[c].called_at, rrCall[c].first_at) >= 1
        /\ WholeSeconds(rrCall[c].first_at, rrCall[c].ended_at) = 0
        /\ rrCall[c].responses[1].value.elapsed_time >= 1


---------------------------------------------------------------------------
(* Claims about what the registry stores and how it is keyed *)

\* C16: the registry stores a copy of each incoming note, equal to the note
\* as it was received and held in the registry from then on.
C16_RegistryStoresCopyOfEachNote ==
    \A i \in 1 .. Len(arrivals) :
        WellFormedNote(arrivals[i].note) =>
            \E k \in DOMAIN route_notes :
                \E j \in 1 .. Len(route_notes[k]) :
                    route_notes[k][j] = jsonCopy(arrivals[i].note)

\* C19: every received location yields a key, two different locations
\* never the same one, and a note is replied only with notes of its own
\* location.
C19_KeyDerivedFromLocation ==
    \A i \in 1 .. Len(arrivals) :
        WellFormedNote(arrivals[i].note) =>
            /\ ~IsThrow(pointKey(arrivals[i].note.location))
            /\ \A q \in ChatPoints :
                  q # arrivals[i].note.location =>
                      pointKey(q) # pointKey(arrivals[i].note.location)
            /\ \A k \in 1 .. Len(arrivals[i].replies) :
                  arrivals[i].replies[k].location = arrivals[i].note.location


---------------------------------------------------------------------------
(* Claims about concurrent recordRoute calls *)

\* what one call, running alone, holds after the points s
RECURSIVE Alone(_)
Alone(s) ==
    IF s = <<>>
    THEN [point_count |-> 0, feature_count |-> 0, distance |-> 0, previous |-> Null]
    ELSE LET before == Alone(SubSeq(s, 1, Len(s) - 1))
             point == decodePoint(s[Len(s)])
             first == before.previous = Null
             d == getDistance(before.previous, point)
             thrown == ~first /\ IsThrow(d)
         IN [point_count   |-> before.point_count + 1,
             feature_count |-> before.feature_count
                               + (IF NamedFeatureAt(point) THEN 1 ELSE 0),
             distance      |-> IF first \/ thrown THEN before.distance
                               ELSE before.distance + d,
             previous      |-> IF thrown THEN before.previous ELSE point]

\* C17: with several recordRoute calls in flight, each call's counters,
\* total and previous point, and the summary it returns, are those the call
\* would have running alone on its own points.
C17_RouteStateIsPerCall ==
    \A c \in DOMAIN rrCall :
        LET call == rrCall[c]
            alone == Alone(call.received)
        IN /\ call.point_count = alone.point_count
           /\ call.feature_count = alone.feature_count
           /\ call.distance = alone.distance
           /\ call.previous = alone.previous
           /\ \A k \in 1 .. Len(call.responses) :
                 /\ call.responses[k].value.point_count = alone.point_count
                 /\ call.responses[k].value.feature_count = alone.feature_count
                 /\ call.responses[k].value.distance = alone.distance

\* two calls were open together, each received a different point, and one
\* of them has returned a summary that counts a feature visit while the
\* other's counts none
C17_Witness ==
    \E c, d \in DOMAIN rrCall :
        /\ c # d
        /\ rrCall[c].status = "done"
        /\ rrCall[d].status = "open"
        /\ Len(rrCall[c].received) = 1
        /\ Len(rrCall[d].received) = 1
        /\ rrCall[c].received # rrCall[d].received
        /\ rrCall[c].responses[1].value.feature_count = 1
        /\ rrCall[d].feature_count = 0


---------------------------------------------------------------------------
(* Claims about what the handlers leave alone *)

---------------------------------------------------------------------------
(* Claims about startup *)

AnyCallHandled ==
    \/ gfCall.status # "idle"
    \/ lfCall.status # "idle"
    \/ \E c \in DOMAIN rrCall : rrCall[c].status # "idle"
    \/ \E c \in DOMAIN rcCall : rcCall[c].status # "idle"

InFile(point) ==
    {i \in 1 .. Len(main.file.data) : main.file.data[i].location = point}

====
